---- MODULE Spec2Model ----
(***************************************************************************)
(* Model of the interactive video quiz (Outdoor EduTube): the Session      *)
(* Controller (App), the Question Provider call (generateQuestions), the   *)
(* Quiz Presentation (QuizOverlay) and the Playback Tracker                *)
(* (YouTubePlayer).                                                        *)
(*                                                                         *)
(* Time is counted in half seconds: the polling interval of 500 ms is one  *)
(* unit and the 1.5 s matching tolerance is three units.  A URL is a       *)
(* sequence of one-character strings.                                      *)
(***************************************************************************)
EXTENDS Integers, Sequences, FiniteSets, TLC

(***************************************************************************)
(* Bounds of the model.                                                    *)
(***************************************************************************)
\* largest playback position the widget reports, in half seconds
MaxTime == 8
\* largest number of items in a provider response
MaxQuestions == 2
\* number of answer options of an item
NumOptions == 2
\* completions counted in one session before the model stops counting
MaxScore == 2

(***************************************************************************)
(* Program constants.                                                      *)
(***************************************************************************)
\* timeDiff < 1.5 (seconds), in half seconds
Tolerance == 3
\* match[2].length === 11
IdLength == 11

(***************************************************************************)
(* getYouTubeId: the regular expression is, from the start of the string, *)
(* a greedy run of any characters, then group 1 (one of six markers), then *)
(* group 2 (a greedy run of characters other than #, & and ?), then any    *)
(* characters.                                                             *)
(***************************************************************************)
WordChars ==
  {"a","b","c","d","e","f","g","h","i","j","k","l","m",
   "n","o","p","q","r","s","t","u","v","w","x","y","z",
   "A","B","C","D","E","F","G","H","I","J","K","L","M",
   "N","O","P","Q","R","S","T","U","V","W","X","Y","Z",
   "0","1","2","3","4","5","6","7","8","9","_"}

\* the alternatives of group 1, in the order of the alternation;
\* "ANY" is the unescaped dot, "WORD" is \w
Markers ==
  << <<"y","o","u","t","u","ANY","b","e","/">>,
     <<"v","/">>,
     <<"u","/","WORD","/">>,
     <<"e","m","b","e","d","/">>,
     <<"w","a","t","c","h","?","v","=">>,
     <<"&","v","=">> >>

\* the characters group 2 stops at: [^#&?]
Group2Stop == {"#", "&", "?"}

CharMatches(p, c) ==
  IF p = "ANY" THEN TRUE
  ELSE IF p = "WORD" THEN c \in WordChars
  ELSE p = c

MatchesAt(url, i, pat) ==
  /\ i + Len(pat) - 1 <= Len(url)
  /\ \A k \in 1..Len(pat) : CharMatches(pat[k], url[i + k - 1])

\* the positions at which some alternative of group 1 matches
MarkerStarts(url) ==
  {i \in 1..Len(url) : \E m \in 1..Len(Markers) : MatchesAt(url, i, Markers[m])}

SetMax(S) == CHOOSE x \in S : \A y \in S : y <= x

\* the first alternative that matches at position i
MarkerAt(url, i) ==
  Markers[CHOOSE m \in 1..Len(Markers) :
            /\ MatchesAt(url, i, Markers[m])
            /\ \A n \in 1..(m - 1) : ~MatchesAt(url, i, Markers[n])]

\* group 2: the longest run of characters outside Group2Stop from position s
Group2(url, s) ==
  LET stops == {j \in s..Len(url) : url[j] \in Group2Stop}
      e == IF stops = {} THEN Len(url)
           ELSE (CHOOSE j \in stops : \A k \in stops : j <= k) - 1
  IN  SubSeq(url, s, e)

\* the failure value of getYouTubeId (null)
NullId == <<>>

\* the leading .* is greedy: group 1 is matched at the last position where
\* an alternative matches
getYouTubeId(url) ==
  LET starts == MarkerStarts(url) IN
  IF starts = {} THEN NullId
  ELSE LET i == SetMax(starts)
           g == Group2(url, i + Len(MarkerAt(url, i)))
       IN  IF Len(g) = IdLength THEN g ELSE NullId

(***************************************************************************)
(* URLs the learner types into the setup form.                             *)
(***************************************************************************)
Host == <<"h","t","t","p","s",":","/","/","w","w","w",".",
          "y","o","u","t","u","b","e",".","c","o","m","/">>
Token == <<"s","S","s","T","R","8","q","q","D","l","4">>
ShortToken == <<"s","S","s","T","R","8","q","q","D","l">>

\* useState('https://www.youtube.com/watch?v=sSsTR8qqDl4')
DefaultUrl == Host \o <<"w","a","t","c","h","?","v","=">> \o Token

\* a URL whose token is one character short
BadUrl == Host \o <<"w","a","t","c","h","?","v","=">> \o ShortToken

\* the URLs typed during a session
Urls == {DefaultUrl, BadUrl}

(***************************************************************************)
(* QuizQuestion, Score, AppState.                                          *)
(***************************************************************************)
\* timestamps the provider gives to items, in half seconds
Timestamps == {1, 3, 6}

\* item k of a provider response: its id is k, the correct option depends
\* on k only
QuizQuestion(k, ts) ==
  [id |-> k, timestamp |-> ts, correctAnswerIndex |-> k % NumOptions]

\* "no question": activeQuestion = null
Null == [id |-> 0, timestamp |-> 0 - 1, correctAnswerIndex |-> 0 - 1]

\* selectedOption = null
NoSelection == 0 - 1

\* error = null
NoError == "null"

\* the arrays the provider can answer with: n items with ids 1..n, in the
\* order of the response, with any timestamps (not sorted)
Responses ==
  UNION { { [k \in 1..n |-> QuizQuestion(k, f[k])] : f \in [1..n -> Timestamps] }
          : n \in 0..MaxQuestions }

\* the messages a failed provider call is rejected with; the empty message
\* stands for an error that carries none
MissingKeyMessage == "API Key is missing"
NoResponseMessage == "No response from Gemini"
FailureMessages ==
  {NoResponseMessage, "Unexpected token in JSON", "Failed to fetch", ""}

InvalidUrlMessage == "Please enter a valid YouTube URL"
DefaultFailureMessage == "Failed to generate quiz. Please check your API key."

(***************************************************************************)
(* State.                                                                  *)
(***************************************************************************)
VARIABLES
  \* App (Session Controller)
  state, videoUrl, isGenerating, error, questions, currentVideoId,
  activeQuestion, answeredQuestionIds, shouldPause, score, playbackTime,
  \* the Question Provider: the credential, and the promise of the call
  \* ("idle": no call, "rejected": failed before a request, "sent": request
  \* in flight)
  apiKey, call,
  \* QuizOverlay; it is mounted while shouldPause and activeQuestion are set
  selectedOption, isSubmitted,
  \* YouTubePlayer; it is mounted while state is PLAYING.  tickQuestions and
  \* tickAnswered are the questions and answeredQuestionIds of the
  \* onTimeUpdate callback that initializePlayer closed over
  apiRequested, apiLoaded, playerRef, isReady, intervalRef,
  tickQuestions, tickAnswered,
  \* the error state of YouTubePlayer, and the resources that are live in
  \* the page: widget instances and polling timers
  playerError, widgets, timers,
  \* history: the last handler that ran, the session at the time generate
  \* called the provider, whether the ticks of the session came in
  \* non-decreasing order, the largest timestamp presented in the session
  lastOp, atCall, ticks, maxPresented,
  \* history: the question that was presented when the learner locked an
  \* option in, and how often pauseVideo was issued since the pause request
  \* went up ("none", "once", "repeated")
  selectedFor, pauseIssued

appVars == <<state, videoUrl, isGenerating, error, questions, currentVideoId,
             activeQuestion, answeredQuestionIds, shouldPause, score,
             playbackTime>>
providerVars == <<apiKey, call>>
overlayVars == <<selectedOption, isSubmitted>>
playerVars == <<apiRequested, apiLoaded, playerRef, isReady, intervalRef,
                tickQuestions, tickAnswered, playerError, widgets, timers>>
historyVars == <<lastOp, atCall, ticks, maxPresented, selectedFor, pauseIssued>>
vars == <<appVars, providerVars, overlayVars, playerVars, historyVars>>

\* the record of a handler that ran: its name, and where it has one its
\* argument (the outcome, the option index or error code, the response)
OpWith(name, isCorrect, arg, response) ==
  [name |-> name, isCorrect |-> isCorrect, arg |-> arg, response |-> response]
Op(name) == OpWith(name, FALSE, 0 - 1, <<>>)

\* error = null in YouTubePlayer
NoPlayerError == [text |-> "null", code |-> 0]

\* what generate must leave alone when the provider fails
Session == [questions |-> questions, score |-> score,
            answeredQuestionIds |-> answeredQuestionIds,
            activeQuestion |-> activeQuestion]

(***************************************************************************)
(* Pure parts of the handlers.                                             *)
(***************************************************************************)
Abs(x) == IF x < 0 THEN 0 - x ELSE x

\* handleGenerate without the sort
SortByTimestampNone(qs) == qs

\* qs.sort((a, b) => a.timestamp - b.timestamp): a stable sort
RECURSIVE SortByTimestamp(_)
SortByTimestamp(qs) ==
  IF qs = <<>> THEN <<>>
  ELSE LET front == SortByTimestamp(SubSeq(qs, 1, Len(qs) - 1))
           q == qs[Len(qs)]
           n == Cardinality({i \in 1..Len(front) : front[i].timestamp <= q.timestamp})
       IN  SubSeq(front, 1, n) \o <<q>> \o SubSeq(front, n + 1, Len(front))

\* InWindow with the comparison turned round
InWindowFlipped(currentTime, q) == Abs(currentTime - q.timestamp) > Tolerance

\* timeDiff < 1.5
InWindow(currentTime, q) == Abs(currentTime - q.timestamp) < Tolerance

\* questions.find(q => timeDiff < 1.5 && !answeredQuestionIds.has(q.id))
PendingQuestion(currentTime, qs, answered) ==
  LET hits == {i \in 1..Len(qs) :
                 InWindow(currentTime, qs[i]) /\ qs[i].id \notin answered}
  IN  IF hits = {} THEN Null
      ELSE qs[CHOOSE i \in hits : \A j \in hits : i <= j]

\* ScoreAfter with the two counters swapped
ScoreAfterSwapped(prev, isCorrect) ==
  [correct |-> prev.total + 1,
   total |-> prev.correct + (IF isCorrect THEN 1 ELSE 0)]

\* ScoreAfter counting every answer as correct
ScoreAfterAlwaysCorrect(prev, isCorrect) ==
  [correct |-> prev.correct + 1, total |-> prev.total + 1]

\* setScore(prev => ...)
ScoreAfter(prev, isCorrect) ==
  [correct |-> prev.correct + (IF isCorrect THEN 1 ELSE 0),
   total |-> prev.total + 1]

\* ErrorText without the fallback message
ErrorTextRaw(message) == message

\* err.message || "Failed to generate quiz. Please check your API key."
ErrorText(message) == IF message # "" THEN message ELSE DefaultFailureMessage

(***************************************************************************)
(* Initial state: App's useState defaults, nothing mounted.                *)
(***************************************************************************)
Init ==
  /\ state = "SETUP"
  /\ videoUrl = DefaultUrl
  /\ isGenerating = FALSE
  /\ error = NoError
  /\ questions = <<>>
  /\ currentVideoId = NullId
  /\ activeQuestion = Null
  /\ answeredQuestionIds = {}
  /\ shouldPause = FALSE
  /\ score = [correct |-> 0, total |-> 0]
  /\ playbackTime = 0
  /\ apiKey \in BOOLEAN
  /\ call = "idle"
  /\ selectedOption = NoSelection
  /\ isSubmitted = FALSE
  /\ apiRequested = FALSE
  /\ apiLoaded = FALSE
  /\ playerRef = FALSE
  /\ isReady = FALSE
  /\ intervalRef = FALSE
  /\ tickQuestions = <<>>
  /\ tickAnswered = {}
  /\ playerError = NoPlayerError
  /\ widgets = 0
  /\ timers = 0
  /\ selectedFor = Null
  /\ pauseIssued = "none"
  /\ lastOp = Op("init")
  /\ atCall = Session
  /\ ticks = "none"
  /\ maxPresented = 0 - 1

(***************************************************************************)
(* Setup form.                                                             *)
(***************************************************************************)
\* onChange of the URL input, rendered while state is SETUP
SetVideoUrl(url) ==
  /\ state = "SETUP"
  /\ url # videoUrl
  /\ videoUrl' = url
  /\ lastOp' = Op("setVideoUrl")
  /\ UNCHANGED <<state, isGenerating, error, questions, currentVideoId,
                 activeQuestion, answeredQuestionIds, shouldPause, score,
                 playbackTime>>
  /\ UNCHANGED <<providerVars, overlayVars, playerVars, atCall, ticks, maxPresented,
                 selectedFor, pauseIssued>>

\* generateQuestions without the check of the credential
GenerateQuestionsNoCheck == "sent"

\* generateQuestions up to its first await: without a credential it throws
\* before a client is built, otherwise the request is sent
GenerateQuestions == IF apiKey THEN "sent" ELSE "rejected"

\* handleGenerate without the early return for a URL with no identifier
HandleGenerateNoReturn ==
  /\ state = "SETUP"
  /\ ~isGenerating
  /\ isGenerating' = TRUE
  /\ error' = NoError
  /\ currentVideoId' = getYouTubeId(videoUrl)
  /\ call' = GenerateQuestions
  /\ atCall' = Session
  /\ lastOp' = Op("handleGenerate")
  /\ UNCHANGED <<state, videoUrl, questions, activeQuestion, answeredQuestionIds,
                 shouldPause, score, playbackTime, apiKey>>
  /\ UNCHANGED <<overlayVars, playerVars, ticks, maxPresented, selectedFor, pauseIssued>>

\* handleGenerate up to its await; the start button is rendered while state
\* is SETUP and disabled while isGenerating
HandleGenerate ==
  /\ state = "SETUP"
  /\ ~isGenerating
  /\ LET id == getYouTubeId(videoUrl) IN
       IF id = NullId
       THEN /\ error' = InvalidUrlMessage
            /\ UNCHANGED <<isGenerating, currentVideoId, call, atCall>>
       ELSE /\ isGenerating' = TRUE
            /\ error' = NoError
            /\ currentVideoId' = id
            /\ call' = GenerateQuestions
            /\ atCall' = Session
  /\ lastOp' = Op("handleGenerate")
  /\ UNCHANGED <<state, videoUrl, questions, activeQuestion, answeredQuestionIds,
                 shouldPause, score, playbackTime, apiKey>>
  /\ UNCHANGED <<overlayVars, playerVars, ticks, maxPresented, selectedFor, pauseIssued>>

\* the catch of handleGenerate without the finally
GenerateFailedNoFinally(message) ==
  /\ call # "idle"
  /\ call = "rejected" => message = MissingKeyMessage
  /\ call = "sent" => message \in FailureMessages
  /\ error' = ErrorText(message)
  /\ call' = "idle"
  /\ lastOp' = Op("generateFailed")
  /\ UNCHANGED <<state, videoUrl, isGenerating, questions, currentVideoId,
                 activeQuestion, answeredQuestionIds, shouldPause, score,
                 playbackTime, apiKey>>
  /\ UNCHANGED <<overlayVars, playerVars, atCall, ticks, maxPresented,
                 selectedFor, pauseIssued>>

\* the await throws: the catch and the finally of handleGenerate.  A call
\* without credential fails with the missing-key message; a request fails
\* when the provider is unreachable, answers nothing or answers text that
\* does not parse
GenerateFailed(message) ==
  /\ call # "idle"
  /\ call = "rejected" => message = MissingKeyMessage
  /\ call = "sent" => message \in FailureMessages
  /\ error' = ErrorText(message)
  /\ isGenerating' = FALSE
  /\ call' = "idle"
  /\ lastOp' = Op("generateFailed")
  /\ UNCHANGED <<state, videoUrl, questions, currentVideoId, activeQuestion,
                 answeredQuestionIds, shouldPause, score, playbackTime, apiKey>>
  /\ UNCHANGED <<overlayVars, playerVars, atCall, ticks, maxPresented,
                 selectedFor, pauseIssued>>

\* the init effect of YouTubePlayer at mount: with the API loaded it calls
\* initializePlayer, otherwise it installs onYouTubeIframeAPIReady and the
\* script tag.  The effect runs for the first render only (deps [videoId]),
\* so the polling timer calls the onTimeUpdate of that render
MountPlayer(qs, answered) ==
  /\ playerRef' = apiLoaded
  /\ apiRequested' = (apiRequested \/ ~apiLoaded)
  /\ isReady' = FALSE
  /\ intervalRef' = FALSE
  /\ tickQuestions' = qs
  /\ tickAnswered' = answered
  /\ playerError' = NoPlayerError
  /\ widgets' = widgets + (IF apiLoaded THEN 1 ELSE 0)
  /\ UNCHANGED <<apiLoaded, timers>>

\* the await returns the parsed array: the rest of the try and the finally
GenerateSucceeded(qs) ==
  /\ call = "sent"
  /\ questions' = SortByTimestamp(qs)
  /\ state' = "PLAYING"
  /\ isGenerating' = FALSE
  /\ call' = "idle"
  /\ MountPlayer(questions', answeredQuestionIds)
  /\ lastOp' = OpWith("generateSucceeded", FALSE, 0 - 1, qs)
  /\ ticks' = "none"
  /\ maxPresented' = 0 - 1
  /\ UNCHANGED <<videoUrl, error, currentVideoId, activeQuestion,
                 answeredQuestionIds, shouldPause, score, playbackTime, apiKey>>
  /\ UNCHANGED <<overlayVars, atCall, selectedFor, pauseIssued>>

(***************************************************************************)
(* Playback Tracker.                                                       *)
(***************************************************************************)
\* the API script has loaded: onYouTubeIframeAPIReady runs initializePlayer,
\* which returns early for a component that is no longer mounted
ApiReady ==
  /\ apiRequested
  /\ ~apiLoaded
  /\ apiLoaded' = TRUE
  /\ playerRef' = (state = "PLAYING")
  /\ widgets' = widgets + (IF state = "PLAYING" THEN 1 ELSE 0)
  /\ playerError' = NoPlayerError
  /\ lastOp' = Op("apiReady")
  /\ UNCHANGED <<apiRequested, isReady, intervalRef, tickQuestions, tickAnswered, timers>>
  /\ UNCHANGED <<appVars, providerVars, overlayVars, atCall, ticks, maxPresented,
                 selectedFor, pauseIssued>>

\* the pause effect of YouTubePlayer (deps [shouldPause, isReady, onPaused]),
\* run after a render that changed one of its deps: ready says whether
\* isReady and playerRef.current are set, pause is shouldPause; it calls
\* pauseVideo() and onPaused()
PauseEffect(ready, pause) ==
  pauseIssued' = IF ~pause THEN "none"
                 ELSE IF ~ready THEN pauseIssued
                 ELSE IF pauseIssued = "none" THEN "once" ELSE "repeated"

\* events.onReady: sets isReady and starts the polling timer, clearing the
\* one intervalRef holds; the render of setIsReady runs the pause effect
OnReady ==
  /\ playerRef
  /\ ~isReady
  /\ isReady' = TRUE
  /\ intervalRef' = TRUE
  /\ timers' = timers - (IF intervalRef THEN 1 ELSE 0) + 1
  /\ PauseEffect(TRUE, shouldPause)
  /\ lastOp' = Op("onReady")
  /\ UNCHANGED <<apiRequested, apiLoaded, playerRef, tickQuestions, tickAnswered,
                 playerError, widgets>>
  /\ UNCHANGED <<appVars, providerVars, overlayVars, atCall, ticks, maxPresented,
                 selectedFor>>

\* handleTimeUpdate without setShouldPause(true)
HandleTimeUpdateNoPause(currentTime) ==
  /\ playbackTime' = currentTime
  /\ LET pendingQuestion == PendingQuestion(currentTime, tickQuestions, tickAnswered) IN
       IF pendingQuestion # Null
       THEN /\ activeQuestion' = pendingQuestion
            /\ maxPresented' = IF pendingQuestion.timestamp > maxPresented
                               THEN pendingQuestion.timestamp ELSE maxPresented
       ELSE UNCHANGED <<activeQuestion, maxPresented>>
  /\ UNCHANGED <<state, videoUrl, isGenerating, error, questions, currentVideoId,
                 answeredQuestionIds, score, shouldPause>>

\* handleTimeUpdate, as the polling timer holds it: questions and
\* answeredQuestionIds are those of the render the timer's callback is from
HandleTimeUpdate(currentTime) ==
  /\ playbackTime' = currentTime
  /\ LET pendingQuestion == PendingQuestion(currentTime, tickQuestions, tickAnswered) IN
       IF pendingQuestion # Null
       THEN /\ shouldPause' = TRUE
            /\ activeQuestion' = pendingQuestion
            /\ maxPresented' = IF pendingQuestion.timestamp > maxPresented
                               THEN pendingQuestion.timestamp ELSE maxPresented
       ELSE UNCHANGED <<shouldPause, activeQuestion, maxPresented>>
  /\ UNCHANGED <<state, videoUrl, isGenerating, error, questions, currentVideoId,
                 answeredQuestionIds, score>>

\* one firing of the 500 ms timer: getCurrentTime() is whatever position the
\* widget is at (the learner can play, pause and seek with its controls)
Tick(currentTime) ==
  /\ intervalRef
  /\ playerRef
  /\ HandleTimeUpdate(currentTime)
  /\ lastOp' = Op("tick")
  /\ ticks' = IF ticks = "none" \/ (ticks = "ordered" /\ currentTime >= playbackTime)
              THEN "ordered" ELSE "unordered"
  \* App renders when one of its states changed; YouTubePlayer then gets a
  \* new onPaused (an inline arrow function) and its pause effect runs
  /\ IF \/ playbackTime' # playbackTime
        \/ shouldPause' # shouldPause
        \/ activeQuestion' # activeQuestion
     THEN PauseEffect(isReady /\ playerRef, shouldPause')
     ELSE UNCHANGED pauseIssued
  /\ UNCHANGED <<providerVars, overlayVars, playerVars, atCall, selectedFor>>

\* the widget error codes of the IFrame API (2 invalid parameter, 5 HTML5
\* player error, 100 not found, 101 and 150 embedding not allowed) and 153
ErrorCodes == {2, 5, 100, 101, 150, 153}

RestrictedText == "Playback Restricted"
NotFoundText == "Video Not Found"
GenericText == "Player Error"

\* the branches of events.onError with 153 left out of the first
ClassifyErrorNo153(code) ==
  IF code = 150
  THEN [text |-> RestrictedText, code |-> 0]
  ELSE IF code = 100 \/ code = 101
       THEN [text |-> NotFoundText, code |-> 0]
       ELSE [text |-> GenericText, code |-> code]

\* the message events.onError sets for a code; only the third message
\* carries the code
ClassifyError(code) ==
  IF code = 150 \/ code = 153
  THEN [text |-> RestrictedText, code |-> 0]
  ELSE IF code = 100 \/ code = 101
       THEN [text |-> NotFoundText, code |-> 0]
       ELSE [text |-> GenericText, code |-> code]

\* events.onError of the live widget
OnError(code) ==
  /\ playerRef
  /\ playerError' = ClassifyError(code)
  /\ lastOp' = OpWith("onError", FALSE, code, <<>>)
  /\ UNCHANGED <<apiRequested, apiLoaded, playerRef, isReady, intervalRef,
                 tickQuestions, tickAnswered, widgets, timers>>
  /\ UNCHANGED <<appVars, providerVars, overlayVars, atCall, ticks, maxPresented,
                 selectedFor, pauseIssued>>

(***************************************************************************)
(* Quiz Presentation and completion.                                       *)
(***************************************************************************)
\* {shouldPause && activeQuestion && <QuizOverlay .../>}
OverlayMounted == shouldPause /\ activeQuestion # Null

\* handleSubmit without the isSubmitted guard
HandleSubmitNoGuard(index) ==
  /\ OverlayMounted
  /\ selectedOption' = index
  /\ isSubmitted' = TRUE
  /\ selectedFor' = activeQuestion
  /\ lastOp' = Op("handleSubmit")
  /\ UNCHANGED <<appVars, providerVars, playerVars, atCall, ticks, maxPresented,
                 pauseIssued>>

\* QuizOverlay.handleSubmit: the first click locks the selection in, later
\* ones return at the guard
HandleSubmit(index) ==
  /\ OverlayMounted
  /\ IF isSubmitted
     THEN UNCHANGED <<selectedOption, isSubmitted, selectedFor>>
     ELSE /\ selectedOption' = index
          /\ isSubmitted' = TRUE
          /\ selectedFor' = activeQuestion
  /\ lastOp' = Op("handleSubmit")
  /\ UNCHANGED <<appVars, providerVars, playerVars, atCall, ticks, maxPresented,
                 pauseIssued>>

\* handleQuestionComplete without setActiveQuestion(null) and
\* setShouldPause(false): the overlay stays up
HandleQuestionCompleteKeepsOverlay(isCorrect) ==
  /\ IF activeQuestion # Null
     THEN /\ score' = ScoreAfter(score, isCorrect)
          /\ answeredQuestionIds' = answeredQuestionIds \cup {activeQuestion.id}
     ELSE UNCHANGED <<score, answeredQuestionIds>>
  /\ PauseEffect(isReady /\ playerRef, shouldPause)
  /\ lastOp' = OpWith("questionComplete", isCorrect, 0 - 1, <<>>)
  /\ UNCHANGED <<state, videoUrl, isGenerating, error, questions, currentVideoId,
                 playbackTime, activeQuestion, shouldPause>>
  /\ UNCHANGED <<providerVars, overlayVars, playerVars, atCall, ticks, maxPresented,
                 selectedFor>>

\* handleQuestionComplete with a setState(AppState.FINISHED) once every
\* question of the set is answered
HandleQuestionCompleteFinishes(isCorrect) ==
  /\ IF activeQuestion # Null
     THEN /\ score' = ScoreAfter(score, isCorrect)
          /\ answeredQuestionIds' = answeredQuestionIds \cup {activeQuestion.id}
     ELSE UNCHANGED <<score, answeredQuestionIds>>
  /\ state' = IF \A i \in 1..Len(questions) : questions[i].id \in answeredQuestionIds'
              THEN "FINISHED" ELSE state
  /\ activeQuestion' = Null
  /\ shouldPause' = FALSE
  /\ selectedOption' = NoSelection
  /\ isSubmitted' = FALSE
  /\ selectedFor' = Null
  /\ PauseEffect(isReady /\ playerRef, FALSE)
  /\ lastOp' = OpWith("questionComplete", isCorrect, 0 - 1, <<>>)
  /\ UNCHANGED <<videoUrl, isGenerating, error, questions, currentVideoId,
                 playbackTime>>
  /\ UNCHANGED <<providerVars, playerVars, atCall, ticks, maxPresented>>

\* App.handleQuestionComplete; the overlay unmounts with the render, and the
\* pause effect of that render finds shouldPause false
HandleQuestionComplete(isCorrect) ==
  /\ IF activeQuestion # Null
     THEN /\ score' = ScoreAfter(score, isCorrect)
          /\ answeredQuestionIds' = answeredQuestionIds \cup {activeQuestion.id}
     ELSE UNCHANGED <<score, answeredQuestionIds>>
  /\ activeQuestion' = Null
  /\ shouldPause' = FALSE
  /\ selectedOption' = NoSelection
  /\ isSubmitted' = FALSE
  /\ selectedFor' = Null
  /\ PauseEffect(isReady /\ playerRef, FALSE)
  /\ lastOp' = OpWith("questionComplete", isCorrect, 0 - 1, <<>>)
  /\ UNCHANGED <<state, videoUrl, isGenerating, error, questions, currentVideoId,
                 playbackTime>>
  /\ UNCHANGED <<providerVars, playerVars, atCall, ticks, maxPresented>>

\* QuizOverlay.handleContinue; the button is rendered once isSubmitted
HandleContinue ==
  /\ OverlayMounted
  /\ isSubmitted
  /\ score.total < MaxScore
  /\ IF selectedOption # NoSelection
     THEN HandleQuestionComplete(selectedOption = activeQuestion.correctAnswerIndex)
     ELSE /\ lastOp' = Op("handleContinue")
          /\ UNCHANGED <<appVars, providerVars, overlayVars, playerVars,
                         atCall, ticks, maxPresented, selectedFor, pauseIssued>>

\* the cleanup of the init effect at unmount without clearInterval
PlayerCleanupNoClear ==
  /\ widgets' = widgets - (IF playerRef THEN 1 ELSE 0)
  /\ playerRef' = FALSE
  /\ intervalRef' = FALSE
  /\ isReady' = FALSE
  /\ playerError' = NoPlayerError
  /\ tickQuestions' = <<>>
  /\ tickAnswered' = {}
  /\ UNCHANGED timers

\* the cleanup of the init effect when YouTubePlayer unmounts: the timer
\* intervalRef holds is cleared, the widget playerRef holds is destroyed (a
\* destroy() that throws is caught, the widget's iframe leaves the page
\* with the component) and playerRef is set to null; the component's own
\* state and the callback it held go with it
PlayerCleanup ==
  /\ timers' = timers - (IF intervalRef THEN 1 ELSE 0)
  /\ widgets' = widgets - (IF playerRef THEN 1 ELSE 0)
  /\ playerRef' = FALSE
  /\ intervalRef' = FALSE
  /\ isReady' = FALSE
  /\ playerError' = NoPlayerError
  /\ tickQuestions' = <<>>
  /\ tickAnswered' = {}

\* handleRestart without setScore and setAnsweredQuestionIds
HandleRestartKeepsScore ==
  /\ state = "PLAYING"
  /\ state' = "SETUP"
  /\ activeQuestion' = Null
  /\ shouldPause' = FALSE
  /\ questions' = <<>>
  /\ selectedOption' = NoSelection
  /\ isSubmitted' = FALSE
  /\ selectedFor' = Null
  /\ pauseIssued' = "none"
  /\ PlayerCleanup
  /\ lastOp' = Op("restart")
  /\ ticks' = "none"
  /\ maxPresented' = 0 - 1
  /\ UNCHANGED <<videoUrl, isGenerating, error, currentVideoId, playbackTime,
                 score, answeredQuestionIds>>
  /\ UNCHANGED <<providerVars, apiRequested, apiLoaded, atCall>>

\* handleRestart without setQuestions([])
HandleRestartKeepsQuestions ==
  /\ state = "PLAYING"
  /\ state' = "SETUP"
  /\ score' = [correct |-> 0, total |-> 0]
  /\ answeredQuestionIds' = {}
  /\ activeQuestion' = Null
  /\ shouldPause' = FALSE
  /\ selectedOption' = NoSelection
  /\ isSubmitted' = FALSE
  /\ selectedFor' = Null
  /\ pauseIssued' = "none"
  /\ PlayerCleanup
  /\ lastOp' = Op("restart")
  /\ ticks' = "none"
  /\ maxPresented' = 0 - 1
  /\ UNCHANGED <<videoUrl, isGenerating, error, currentVideoId, playbackTime, questions>>
  /\ UNCHANGED <<providerVars, apiRequested, apiLoaded, atCall>>

\* App.handleRestart (the Exit button, rendered while PLAYING); the overlay
\* and the player unmount, and the player's cleanup clears the timer and
\* destroys the widget
HandleRestart ==
  /\ state = "PLAYING"
  /\ state' = "SETUP"
  /\ score' = [correct |-> 0, total |-> 0]
  /\ answeredQuestionIds' = {}
  /\ activeQuestion' = Null
  /\ shouldPause' = FALSE
  /\ questions' = <<>>
  /\ selectedOption' = NoSelection
  /\ isSubmitted' = FALSE
  /\ selectedFor' = Null
  /\ pauseIssued' = "none"
  /\ PlayerCleanup
  /\ lastOp' = Op("restart")
  /\ ticks' = "none"
  /\ maxPresented' = 0 - 1
  /\ UNCHANGED <<videoUrl, isGenerating, error, currentVideoId, playbackTime>>
  /\ UNCHANGED <<providerVars, apiRequested, apiLoaded, atCall>>

(***************************************************************************)
(* Specification.                                                          *)
(***************************************************************************)
Next ==
  \/ \E url \in Urls : SetVideoUrl(url)
  \/ HandleGenerate
  \/ \E message \in FailureMessages \cup {MissingKeyMessage} : GenerateFailed(message)
  \/ \E qs \in Responses : GenerateSucceeded(qs)
  \/ ApiReady
  \/ OnReady
  \/ \E currentTime \in 0..MaxTime : Tick(currentTime)
  \/ \E index \in 0..(NumOptions - 1) : HandleSubmit(index)
  \/ HandleContinue
  \/ HandleRestart

Spec == Init /\ [][Next]_vars

(***************************************************************************)
(* The player with the errors its widget reports.                          *)
(***************************************************************************)
NextPlayer ==
  \/ HandleGenerate
  \/ \E message \in FailureMessages \cup {MissingKeyMessage} : GenerateFailed(message)
  \/ \E qs \in Responses : GenerateSucceeded(qs)
  \/ ApiReady
  \/ OnReady
  \/ \E code \in ErrorCodes : OnError(code)
  \/ \E currentTime \in 0..MaxTime : Tick(currentTime)
  \/ HandleRestart

SpecPlayer == Init /\ [][NextPlayer]_vars

(***************************************************************************)
(* Identifier extraction on its own: the learner types a URL of one of the *)
(* supported shapes and getYouTubeId is applied to it.                     *)
(***************************************************************************)
Scheme == <<"h","t","t","p","s",":","/","/">>
LongToken == Token \o <<"x">>

\* the markers of the shapes watch?v=, youtu.be/, embed/, v/ and u/\w/
ShapeMarkers ==
  { <<"w","a","t","c","h","?","v","=">>,
    <<"y","o","u","t","u",".","b","e","/">>,
    <<"e","m","b","e","d","/">>,
    <<"v","/">>,
    <<"u","/","1","/">> }

\* what follows the token: nothing, a query, a fragment, a further
\* parameter, a further path segment
QuerySuffixes == { <<>>, <<"?","t","=","1">>, <<"#","t","=","1">>, <<"&","t","=","1">> }
PathSuffix == <<"/","x">>
Suffixes == QuerySuffixes \cup {PathSuffix}

UrlPrefixes == {Host, Scheme}
UrlTokens == {Token, ShortToken, LongToken}

BuildUrl(prefix, marker, token, suffix) == prefix \o marker \o token \o suffix

\* URLs of a supported shape, and strings with no marker at all
UrlShapes ==
  { BuildUrl(p, m, t, x) : p \in UrlPrefixes, m \in ShapeMarkers,
                           t \in UrlTokens, x \in Suffixes }
  \cup { p \o t : p \in UrlPrefixes, t \in UrlTokens }

\* const id = getYouTubeId(videoUrl), the result kept in currentVideoId
ExtractId ==
  /\ currentVideoId' = getYouTubeId(videoUrl)
  /\ lastOp' = Op("getYouTubeId")
  /\ UNCHANGED <<state, videoUrl, isGenerating, error, questions,
                 activeQuestion, answeredQuestionIds, shouldPause, score,
                 playbackTime>>
  /\ UNCHANGED <<providerVars, overlayVars, playerVars, atCall, ticks, maxPresented,
                 selectedFor, pauseIssued>>

NextUrl ==
  \/ \E url \in UrlShapes : SetVideoUrl(url)
  \/ ExtractId

SpecUrl == Init /\ [][NextUrl]_vars

(***************************************************************************)
(* Claims.                                                                 *)
(***************************************************************************)
NoScore == [correct |-> 0, total |-> 0]

\* C1: once an item's id is in AnsweredSet, no tick of the polling timer
\* makes that item ActiveQuestion (or requests a pause for it) again.
C1_AnsweredNotRetriggered ==
  (lastOp.name = "tick" /\ activeQuestion # Null)
    => activeQuestion.id \notin answeredQuestionIds

\* C2: Score.total never exceeds the number of resolved questions.
C2_TotalAtMostAnswered == score.total <= Cardinality(answeredQuestionIds)

\* C3: between two restarts Score.correct and Score.total never decrease,
\* and Score.correct <= Score.total in every reachable state.
C3_ScoreMonotone ==
  /\ [][lastOp'.name # "restart"
          => /\ score'.correct >= score.correct
             /\ score'.total >= score.total]_vars
  /\ [](score.correct <= score.total)

\* C3 happens: a session in which a wrong and a right answer were counted
C3_Witness == score = [correct |-> 1, total |-> 2]

\* C4: a tick at time t makes the first unanswered item in window the
\* ActiveQuestion and requests a pause; when there is no such item the tick
\* leaves ActiveQuestion and the pause request as they were.
C4_SchedulerDecision ==
  [][lastOp'.name = "tick"
       => LET due == PendingQuestion(playbackTime', questions, answeredQuestionIds) IN
            IF due # Null
            THEN activeQuestion' = due /\ shouldPause'
            ELSE activeQuestion' = activeQuestion /\ shouldPause' = shouldPause]_vars

\* C5: while an ActiveQuestion is set, no tick replaces it with another item.
C5_ActiveNotReplaced ==
  [][(lastOp'.name = "tick" /\ activeQuestion # Null)
       => activeQuestion' = activeQuestion]_vars

\* C6: when the ticks of a session come in non-decreasing time order, the
\* item presented has the largest timestamp presented so far in the session:
\* no item is presented after one with a strictly larger timestamp.
C6_PresentedInTimestampOrder ==
  (ticks = "ordered" /\ activeQuestion # Null)
    => activeQuestion.timestamp >= maxPresented

\* C6 happens: under ordered ticks an item was presented and answered, and
\* an item with a larger timestamp is presented now
C6_Witness ==
  /\ ticks = "ordered"
  /\ activeQuestion # Null
  /\ \E i \in 1..Len(questions) :
       /\ questions[i].id \in answeredQuestionIds
       /\ questions[i].timestamp < activeQuestion.timestamp

\* C7: onQuestionComplete(isCorrect) with an ActiveQuestion set adds 1 to
\* Score.total, adds 1 to Score.correct exactly when isCorrect, adds the
\* active item's id to AnsweredSet, clears ActiveQuestion and the pause
\* request, and leaves the question set and SessionState alone.
C7_QuestionComplete ==
  [][(lastOp'.name = "questionComplete" /\ activeQuestion # Null)
       => /\ score'.total = score.total + 1
          /\ score'.correct = score.correct + (IF lastOp'.isCorrect THEN 1 ELSE 0)
          /\ answeredQuestionIds' = answeredQuestionIds \cup {activeQuestion.id}
          /\ activeQuestion' = Null
          /\ shouldPause' = FALSE
          /\ questions' = questions
          /\ state' = state]_vars

\* C7 happens: a wrong answer was just counted after a right one
C7_Witness ==
  /\ lastOp.name = "questionComplete"
  /\ ~lastOp.isCorrect
  /\ score.correct = 1
  /\ score.total = 2

\* C8: restart from any PLAYING state gives SETUP, Score (0,0), an empty
\* AnsweredSet, no ActiveQuestion, no pause request, an empty question set.
C8_Restart ==
  [][lastOp'.name = "restart"
       => /\ state = "PLAYING"
          /\ state' = "SETUP"
          /\ score' = NoScore
          /\ answeredQuestionIds' = {}
          /\ activeQuestion' = Null
          /\ shouldPause' = FALSE
          /\ questions' = <<>>]_vars

\* C8 happens: a restart has just run, after ticks of a session were seen
C8_Witness == lastOp.name = "restart" /\ playbackTime > 0

\* C9: when the provider call fails, the session is still in SETUP, an error
\* message is there to display, and the question set, Score, AnsweredSet
\* and ActiveQuestion are what they were when generate made the call.
C9_ProviderFailure ==
  lastOp.name = "generateFailed"
    => /\ state = "SETUP"
       /\ error \notin {NoError, ""}
       /\ Session = atCall

\* C9 happens: a call without credential has just failed
C9_Witness == lastOp.name = "generateFailed" /\ error = MissingKeyMessage

\* C10: generate with a URL that yields no identifier sets the invalid-URL
\* message, does not call the provider, and leaves SessionState, the video
\* identifier, the generating flag and the question set alone.
C10_InvalidUrl ==
  [][(lastOp'.name = "handleGenerate" /\ getYouTubeId(videoUrl) = NullId)
       => /\ error' = InvalidUrlMessage
          /\ call = "idle" /\ call' = "idle"
          /\ state' = state
          /\ currentVideoId' = currentVideoId
          /\ isGenerating' = isGenerating
          /\ questions' = questions]_vars

\* C10 happens: generate has just refused a URL, in a page that had bound a
\* video identifier before
C10_Witness ==
  /\ lastOp.name = "handleGenerate"
  /\ error = InvalidUrlMessage
  /\ currentVideoId = Token

\* C11: for every URL of a supported shape that holds an 11-character token,
\* also when further path, query or fragment text follows the token,
\* extraction returns that token; for a string that holds no such token it
\* returns the failure value; a returned identifier has length 11.
C11_Extraction ==
  lastOp.name = "getYouTubeId"
    => /\ \A p \in UrlPrefixes, m \in ShapeMarkers, x \in Suffixes :
            videoUrl = BuildUrl(p, m, Token, x) => currentVideoId = Token
       /\ \A p \in UrlPrefixes, m \in ShapeMarkers, x \in Suffixes :
            videoUrl \in {BuildUrl(p, m, ShortToken, x), BuildUrl(p, m, LongToken, x)}
              => currentVideoId = NullId
       /\ \A p \in UrlPrefixes, t \in UrlTokens :
            videoUrl = p \o t => currentVideoId = NullId
       /\ currentVideoId # NullId => Len(currentVideoId) = IdLength

\* qs is in ascending order of timestamp
Sorted(qs) == \A i \in 1..(Len(qs) - 1) : qs[i].timestamp <= qs[i + 1].timestamp

\* the number of places of qs that hold q
Occurrences(qs, q) == Cardinality({i \in 1..Len(qs) : qs[i] = q})

\* a and b hold the same items the same number of times
IsPermutation(a, b) ==
  /\ Len(a) = Len(b)
  /\ \A i \in 1..Len(a) : Occurrences(a, a[i]) = Occurrences(b, a[i])

\* C12: when the provider call succeeds, the question set is a permutation of
\* the returned items in ascending order of timestamp and SessionState is
\* PLAYING; PLAYING never has a question set that is not sorted by timestamp.
C12_SortedOnSuccess ==
  /\ lastOp.name = "generateSucceeded"
       => /\ state = "PLAYING"
          /\ IsPermutation(questions, lastOp.response)
          /\ Sorted(questions)
  /\ state = "PLAYING" => Sorted(questions)

\* C12 happens: the provider has just answered with items out of order
C12_Witness ==
  /\ lastOp.name = "generateSucceeded"
  /\ Len(lastOp.response) = MaxQuestions
  /\ ~Sorted(lastOp.response)

\* C13: once an option is submitted, a further selection changes neither the
\* locked-in selection nor the submitted flag, and emits no outcome: Score,
\* AnsweredSet, ActiveQuestion and the pause request stay as they were.
C13_FirstSelectionWins ==
  [][(lastOp'.name = "handleSubmit" /\ isSubmitted)
       => /\ selectedOption' = selectedOption
          /\ isSubmitted'
          /\ score' = score
          /\ answeredQuestionIds' = answeredQuestionIds
          /\ activeQuestion' = activeQuestion
          /\ shouldPause' = shouldPause]_vars

\* C13 happens: the last step was a selection, and it was not the one that
\* locked the option in (that one was made for another question than the
\* one now presented)
C13_Witness ==
  /\ lastOp.name = "handleSubmit"
  /\ isSubmitted
  /\ selectedFor # activeQuestion

\* C14: an outcome is emitted only by the continue action of a mounted
\* presentation whose option is submitted, and that presentation is gone
\* when it has emitted, so it cannot emit again; no other step but restart
\* changes Score or AnsweredSet.
C14_EmittedOnce ==
  [][/\ lastOp'.name = "questionComplete"
          => /\ OverlayMounted
             /\ isSubmitted
             /\ selectedOption # NoSelection
             /\ ~(shouldPause' /\ activeQuestion' # Null)
             /\ ~isSubmitted'
             /\ score'.total = score.total + 1
     /\ lastOp'.name \notin {"questionComplete", "restart"}
          => /\ score' = score
             /\ answeredQuestionIds' = answeredQuestionIds]_vars

\* C14 happens: a presentation has just emitted its outcome, the second one
\* of the session
C14_Witness ==
  /\ lastOp.name = "questionComplete"
  /\ lastOp.isCorrect
  /\ score.total = 2
  /\ score.correct = 2

\* C15: the outcome emitted on continue is true exactly when the locked-in
\* option equals the correctAnswerIndex of the question that was presented
\* when the learner chose it.
C15_OutcomeOfChosenQuestion ==
  [][lastOp'.name = "questionComplete"
       => lastOp'.isCorrect = (selectedOption = selectedFor.correctAnswerIndex)]_vars

\* C16: while the pause request is true and the player is ready, pauseVideo
\* has been issued exactly once since the request became true, whatever
\* ticks and re-renders have happened since.
C16_PauseOnce ==
  (shouldPause /\ isReady /\ playerRef) => pauseIssued = "once"

C18_RetryPossible ==
  /\ isGenerating = (call # "idle")
  /\ lastOp.name = "generateFailed" => (state = "SETUP" /\ ~isGenerating)

\* C18 happens: a request that was sent has failed with an error that
\* carries no message
C18_Witness ==
  /\ lastOp.name = "generateFailed"
  /\ apiKey
  /\ error = DefaultFailureMessage

\* C19: without a credential no request is ever sent, and the call fails
\* with the missing-credential message.
C19_MissingCredential ==
  /\ ~apiKey => call # "sent"
  /\ (~apiKey /\ lastOp.name = "generateFailed") => error = MissingKeyMessage

\* C19 happens: a call made without a credential has been rejected
C19_Witness ==
  /\ ~apiKey
  /\ lastOp.name = "generateFailed"
  /\ call = "idle"
  /\ currentVideoId = Token

\* C20: codes 150 and 153 give the embedding-restricted message, 100 and 101
\* the video-unavailable one, every other code the generic one; the three
\* messages differ; and an error that is set stays set until the player is
\* disposed of, changed only by a later error event.
C20_ErrorClassification ==
  /\ [](lastOp.name = "onError"
          => playerError.text =
               IF lastOp.arg \in {150, 153} THEN RestrictedText
               ELSE IF lastOp.arg \in {100, 101} THEN NotFoundText
               ELSE GenericText)
  /\ [](Cardinality({RestrictedText, NotFoundText, GenericText, NoPlayerError.text}) = 4)
  /\ [][(playerError # NoPlayerError /\ lastOp'.name # "restart")
          => /\ playerError' # NoPlayerError
             /\ lastOp'.name # "onError" => playerError' = playerError]_vars

\* C20 happens: the widget reported 153 and the player has gone on ticking
\* with the message up
C20_Witness ==
  /\ lastOp.name = "tick"
  /\ playerError.text = RestrictedText
  /\ shouldPause

\* C21: the ticks one player instance delivers come in non-decreasing order
\* of time, whatever the learner does with the widget's controls.
C21_TicksOrdered == ticks # "unordered"

\* SessionState values the control flow uses
UsedStates == {"SETUP", "PLAYING"}

\* C22: SessionState is SETUP or PLAYING, it is still PLAYING when an outcome
\* has been recorded (also the one of the last question of the set), and it
\* changes only from SETUP to PLAYING by a successful generate and from
\* PLAYING to SETUP by restart.
C22_SessionStates ==
  /\ [](state \in UsedStates)
  /\ [](lastOp.name = "questionComplete" => state = "PLAYING")
  /\ [][state' # state
          => \/ /\ state = "SETUP"
                /\ state' = "PLAYING"
                /\ lastOp'.name = "generateSucceeded"
             \/ /\ state = "PLAYING"
                /\ state' = "SETUP"
                /\ lastOp'.name = "restart"]_vars

\* C22 happens: every question of a full set is answered
C22_Witness ==
  /\ state = "PLAYING"
  /\ Len(questions) = MaxQuestions
  /\ \A i \in 1..Len(questions) : questions[i].id \in answeredQuestionIds

\* the width of the window round a timestamp, 3.0 s
WindowWidth == 2 * Tolerance

\* a is an unanswered item of the set that is sorted no later than the i-th
\* and is in window at time t
SelectedFor(i, a, t) ==
  \E j \in 1..i : /\ a = questions[j]
                  /\ questions[j].id \notin answeredQuestionIds
                  /\ InWindow(t, questions[j])

\* C23: when two consecutive ticks t1 <= t2 less than the window width apart
\* straddle the timestamp of an unanswered item, the scheduler has selected
\* at t1 or selects at t2 that item or an earlier-sorted unanswered item
\* that is in window.
C23_NoMissedQuestion ==
  [][(/\ lastOp.name = "tick"
      /\ lastOp'.name = "tick"
      /\ playbackTime <= playbackTime'
      /\ playbackTime' - playbackTime < WindowWidth)
       => \A i \in 1..Len(questions) :
            (/\ questions[i].id \notin answeredQuestionIds
             /\ playbackTime <= questions[i].timestamp
             /\ questions[i].timestamp <= playbackTime')
              => \/ SelectedFor(i, activeQuestion, playbackTime)
                 \/ SelectedFor(i, activeQuestion', playbackTime')]_vars

\* C24: the pause request is true exactly when ActiveQuestion is non-null,
\* and a non-null ActiveQuestion is an item of the current question set of
\* a PLAYING session.
C24_PauseWithActive ==
  /\ shouldPause = (activeQuestion # Null)
  /\ activeQuestion # Null
       => /\ state = "PLAYING"
          /\ \E i \in 1..Len(questions) : questions[i] = activeQuestion

\* C24 happens: a tick has just presented the last item of a full set
C24_Witness ==
  /\ lastOp.name = "tick"
  /\ shouldPause
  /\ Len(questions) = MaxQuestions
  /\ activeQuestion = questions[MaxQuestions]

\* C25: in SETUP the question set is empty, Score is (0,0), AnsweredSet is
\* empty, ActiveQuestion is null and no pause is requested, and no tick is
\* processed: the last step is never a tick and neither widget nor polling
\* timer is held.
C25_SetupIsClean ==
  state = "SETUP"
    => /\ questions = <<>>
       /\ score = NoScore
       /\ answeredQuestionIds = {}
       /\ activeQuestion = Null
       /\ ~shouldPause
       /\ lastOp.name # "tick"
       /\ ~playerRef
       /\ ~intervalRef

\* C25 happens: a generation has failed in a page whose earlier session had
\* played before its restart
C25_Witness ==
  /\ state = "SETUP"
  /\ lastOp.name = "generateFailed"
  /\ playbackTime > 0

====
